---- MODULE Spec2Model ----
(***************************************************************************)
(* graphqlgen: the Flow and the TypeScript resolver-type generators.       *)
(*                                                                         *)
(* generate(args) is a pure function from GenerateArgs to a text.  The     *)
(* text is modelled as the sequence of the declarations it contains, in    *)
(* the order in which the template literals lay them out.  An identifier   *)
(* is a sequence of tokens; a token is a piece of text that is never split *)
(* ("A", "_", "Args", "Resolvers", ...).  No token is a concatenation of   *)
(* other tokens, so two identifiers are the same text exactly when they    *)
(* are the same token sequence, and string concatenation is \o.            *)
(***************************************************************************)
EXTENDS Integers, Sequences, FiniteSets, TLC

VARIABLES
    args,      \* the GenerateArgs handed to generate()
    rootSub,   \* name of the schema's subscription root type (<<>>: none)
    lang,      \* dialect whose generate() ran: "none", "flow", "typescript"
    pc,        \* "start" -> "generated" -> "formatted"
    out,       \* the text generate() returned (sequence of declarations)
    result,    \* what format() returned
    log,       \* diagnostics written by format() (console.log)
    threw,     \* TRUE when prettier.format threw inside format()
    raised     \* TRUE when format() itself threw

vars == <<args, rootSub, lang, pc, out, result, log, threw, raised>>

----------------------------------------------------------------------------
(* Array helpers *)

Map(Op(_), s) == [i \in DOMAIN s |-> Op(s[i])]

RECURSIVE Flatten(_)
Flatten(ss) == IF ss = <<>> THEN <<>> ELSE Head(ss) \o Flatten(Tail(ss))

Range(s) == {s[i] : i \in DOMAIN s}

----------------------------------------------------------------------------
(* Identifiers *)

Upper(c) ==
    CASE c = "a" -> "A"
      [] c = "b" -> "B"
      [] c = "f" -> "F"
      [] c = "g" -> "G"
      [] c = "i" -> "I"
      [] c = "u" -> "U"
      [] OTHER -> c

upperFirst(s) == IF s = <<>> THEN s ELSE <<Upper(Head(s))>> \o Tail(s)

----------------------------------------------------------------------------
(* The schema type graph (source-helper's GraphQLTypeObject and friends) *)

TypeRef(n, k) ==
    [name |-> n,
     isObject |-> k = "object", isInput |-> k = "input",
     isScalar |-> k = "scalar", isEnum |-> k = "enum",
     isInterface |-> k = "interface", isUnion |-> k = "union",
     isArray |-> FALSE]

ListOf(typeRef) == [typeRef EXCEPT !.isArray = TRUE]

Field(n, as) == [name |-> n, type |-> TypeRef(<<"Int">>, "scalar"), arguments |-> as]

InputField(n, typeRef) == [name |-> n, type |-> typeRef, arguments |-> <<>>]

(* a model of the model map (types.ts: Model) *)
Model(n, path, kind, isEnum) ==
    [definition |-> [name |-> n, kind |-> kind, isEnum |-> isEnum],
     importPathRelativeToOutput |-> path]

(* args.context is optional: <<>> when the caller gave none *)
NoContext == <<>>
ContextDefinition == <<[interfaceName |-> <<"Ctx">>, contextPath |-> "./context"]>>

TypeDef(n, k, fs, is, ts) ==
    [name |-> n, type |-> TypeRef(n, k), fields |-> fs, interfaces |-> is, types |-> ts]

----------------------------------------------------------------------------
(* Bounds and the input sets the schemas are drawn from *)

MaxArgs == 2
MaxObjects == 2

NoRoot == <<>>

ObjectNames == {<<"A">>, <<"B">>, <<"Subscription">>}
FieldNames == {<<"f">>, <<"F">>}
InputNameSeq == << <<"I">>, <<"Resolvers">> >>
InterfaceName == <<"N">>
UnionName == <<"U">>

ArgTypes ==
    {TypeRef(<<"Int">>, "scalar")} \cup {TypeRef(n, "input") : n \in Range(InputNameSeq)}

ArgLists == UNION {[1..k -> ArgTypes] : k \in 0..MaxArgs}

Arguments(ts) == [i \in DOMAIN ts |-> [name |-> <<"x", ToString(i)>>, type |-> ts[i]]]

InjSeqs(S, n) ==
    {s \in UNION {[1..k -> S] : k \in 1..n} :
        \A i, j \in DOMAIN s : i # j => s[i] # s[j]}

FieldList(ns, as) == [i \in DOMAIN ns |-> Field(ns[i], Arguments(as[i]))]

InputTypes ==
    [i \in DOMAIN InputNameSeq |->
        TypeDef(InputNameSeq[i], "input", <<Field(<<"v">>, <<>>)>>, <<>>, <<>>)]

(* the import paths, in the order in which sorting puts them *)
ImportPaths == <<"./a", "./b">>

ObjectNameSeq == << <<"A">>, <<"B">>, <<"Subscription">> >>

ModelMaps ==
    { [n \in bound |-> Model(n \o <<"Model">>, ImportPaths[1], "InterfaceDefinition", FALSE)] :
        bound \in {{}, {<<"A">>}, ObjectNames} }

(* Object.keys(modelMap) of the maps above *)
KeysOf(mm) == SelectSeq(ObjectNameSeq, LAMBDA n : n \in DOMAIN mm)

RECURSIVE Pick(_, _, _)
Pick(s, S, i) ==
    IF i > Len(s) THEN <<>>
    ELSE (IF i \in S THEN <<s[i]>> ELSE <<>>) \o Pick(s, S, i + 1)

SimpleFields == <<Field(<<"f">>, Arguments(<<TypeRef(<<"I">>, "input")>>))>>
InterfaceFields == <<Field(<<"g">>, Arguments(<<TypeRef(<<"Int">>, "scalar")>>))>>

(* one object type named n with the field list fs: the per-type declarations *)
FieldSchema(n, fs, flag) ==
    [types |-> <<TypeDef(n, "object", fs, <<>>, <<>>)>> \o InputTypes,
     interfaces |-> <<>>,
     unions |-> <<>>,
     enums |-> <<>>,
     modelMap |->
        [m \in {<<"A">>} |-> Model(m \o <<"Model">>, ImportPaths[1], "InterfaceDefinition", FALSE)],
     modelKeys |-> << <<"A">> >>,
     context |-> NoContext,
     defaultResolversEnabled |-> flag,
     root |-> IF n = <<"Subscription">> THEN n ELSE NoRoot]

(* the object types ns, the interface N implemented by those at the indices *)
(* impl (when hasI), the union U of those at the indices mem (when not empty) *)
AbstractSchema(ns, hasI, impl, mem, mm, flag, r) ==
    LET refs == [i \in DOMAIN ns |-> TypeRef(ns[i], "object")]
    IN  [types |->
            [i \in DOMAIN ns |->
                TypeDef(ns[i], "object", SimpleFields,
                        IF hasI /\ i \in impl THEN <<InterfaceName>> ELSE <<>>, <<>>)]
            \o InputTypes,
         interfaces |->
            IF hasI
            THEN <<TypeDef(InterfaceName, "interface", InterfaceFields, <<>>,
                           Pick(refs, impl, 1))>>
            ELSE <<>>,
         unions |->
            IF mem # {}
            THEN <<TypeDef(UnionName, "union", <<>>, <<>>, Pick(refs, mem, 1))>>
            ELSE <<>>,
         enums |-> <<>>,
         modelMap |-> mm,
         modelKeys |-> KeysOf(mm),
         context |-> NoContext,
         defaultResolversEnabled |-> flag,
         root |-> r]

(* the keys a model map of a header schema is drawn from: A is bound to an  *)
(* interface definition, B to a type alias of the same name, the interface *)
(* N to a model of its own, E (an enum of the schema) to an enum type alias *)
ModelKeys == {<<"A">>, <<"B">>, <<"N">>, <<"E">>}

ModelFor(key, path) ==
    CASE key = <<"A">> -> Model(<<"AModel">>, path, "InterfaceDefinition", FALSE)
      [] key = <<"B">> -> Model(<<"AModel">>, path, "TypeAliasDefinition", FALSE)
      [] key = <<"N">> -> Model(<<"NModel">>, path, "InterfaceDefinition", FALSE)
      [] OTHER -> Model(<<"EModel">>, path, "TypeAliasDefinition", TRUE)

(* the input type I (with a field of the input type J when nested) and J *)
NestedInputTypes(nested) ==
    <<TypeDef(<<"I">>, "input",
              <<InputField(<<"v">>, TypeRef(<<"Int">>, "scalar"))>>
              \o (IF nested THEN <<InputField(<<"w">>, TypeRef(<<"J">>, "input"))>>
                  ELSE <<>>),
              <<>>, <<>>),
      TypeDef(<<"J">>, "input", <<InputField(<<"v">>, TypeRef(<<"Int">>, "scalar"))>>,
              <<>>, <<>>)>>

(* the object types A and B, both implementing N, B the member of U; the   *)
(* model map binds the keys ks, in this order, to models at the paths ps;  *)
(* A.f takes an I (a list of I when list), B.f an I                        *)
HeaderSchema(ks, ps, ctx, en, nested, list) ==
    LET refs == <<TypeRef(<<"A">>, "object"), TypeRef(<<"B">>, "object")>>
        argI == TypeRef(<<"I">>, "input")
    IN  [types |->
            <<TypeDef(<<"A">>, "object",
                      <<Field(<<"f">>, Arguments(<<IF list THEN ListOf(argI) ELSE argI>>))>>,
                      <<InterfaceName>>, <<>>),
              TypeDef(<<"B">>, "object", SimpleFields, <<InterfaceName>>, <<>>)>>
            \o NestedInputTypes(nested),
         interfaces |-> <<TypeDef(InterfaceName, "interface", InterfaceFields, <<>>, refs)>>,
         unions |-> <<TypeDef(UnionName, "union", <<>>, <<>>, <<refs[2]>>)>>,
         enums |-> IF en THEN <<TypeDef(<<"E">>, "enum", <<>>, <<>>, <<>>)>> ELSE <<>>,
         modelMap |-> [k \in Range(ks) |->
                          ModelFor(k, ps[CHOOSE i \in DOMAIN ks : ks[i] = k])],
         modelKeys |-> ks,
         context |-> IF ctx THEN ContextDefinition ELSE NoContext,
         defaultResolversEnabled |-> TRUE,
         root |-> NoRoot]

----------------------------------------------------------------------------
(* Declarations of the generated text *)

Decl ==
    [kind |-> "", scope |-> <<>>, name |-> <<>>, owner |-> <<>>, field |-> <<>>,
     input |-> <<>>, shape |-> "", parent |-> <<>>, argsType |-> <<>>,
     extends |-> <<>>, entries |-> <<>>, discriminator |-> <<>>,
     imports |-> <<>>, context |-> <<>>, isTypeOf |-> <<>>]

(* `export namespace ns { ... }` around the declarations ds *)
InNamespace(ns, ds) == [i \in DOMAIN ds |-> [ds[i] EXCEPT !.scope = ns]]

Objects(a) == SelectSeq(a.types, LAMBDA t : t.type.isObject)

----------------------------------------------------------------------------
(* generators/common *)

getModelName(type, modelMap, emptyType) ==
    IF type.name \in DOMAIN modelMap THEN modelMap[type.name].definition.name
    ELSE <<emptyType>>

getContextName(context) ==
    IF Len(context) > 0 THEN context[1].interfaceName ELSE <<"Context">>

(* the elements of s, each once, in the order of their first occurrence *)
Uniq(s) ==
    LET F[i \in 0..Len(s)] ==
            IF i = 0 THEN <<>>
            ELSE IF s[i] \in Range(F[i - 1]) THEN F[i - 1] ELSE Append(F[i - 1], s[i])
    IN  F[Len(s)]

(* one group per import path, the paths sorted, each with the names of its *)
(* models without repetition                                               *)
groupModelsNameByImportPath(models) ==
    LET used == SelectSeq(ImportPaths, LAMBDA p :
                    \E i \in DOMAIN models : models[i].importPathRelativeToOutput = p)
    IN  Map(LAMBDA p :
                [importPath |-> p,
                 names |-> Uniq(Map(LAMBDA m : m.definition.name,
                                    SelectSeq(models, LAMBDA m :
                                        m.importPathRelativeToOutput = p)))],
            used)

flatten(a, b) == a \o b

(* String.prototype.replace with a string pattern: the first occurrence *)
replace(text, pattern, replacement) ==
    IF \E i \in DOMAIN text : text[i] = pattern
    THEN LET i == CHOOSE i \in DOMAIN text :
                      text[i] = pattern /\ \A j \in 1..(i - 1) : text[j] # pattern
         IN  SubSeq(text, 1, i - 1) \o replacement \o SubSeq(text, i + 1, Len(text))
    ELSE text

(* the type expression a type reference is spelled as: the target-language *)
(* name of a scalar, the schema name of an input type or enum, the model   *)
(* of any other type; a list is the expression of its element and `[]`     *)
TypeExpression(type, modelMap) ==
    (IF type.isScalar THEN <<"number">>
     ELSE IF type.isInput \/ type.isEnum THEN type.name
     ELSE getModelName(type, modelMap, "{}"))
    \o (IF type.isArray THEN <<"[]">> ELSE <<>>)

(* printFieldLikeType as flow/generator.ts calls it: with isReturn the type *)
(* expression alone, without it the entry `name: type`                      *)
printFieldLikeType(field, modelMap, isReturn) ==
    IF isReturn THEN TypeExpression(field.type, modelMap)
    ELSE field.name \o <<": ">> \o TypeExpression(field.type, modelMap)

(* printFieldLikeType as the TypeScript generator calls it (it has no *)
(* isReturn option there and the caller writes the name itself)       *)
TS_printFieldLikeType(field, modelMap) == TypeExpression(field.type, modelMap)

renderEnums(a) ==
    Map(LAMBDA enum : [Decl EXCEPT !.kind = "enum", !.name = enum.name], a.enums)

getDistinctInputTypes(type, typeToInputTypeAssociation, inputTypesMap) ==
    LET s == typeToInputTypeAssociation[type.name]
        F[i \in 0..Len(s)] ==
            IF i = 0 THEN <<>>
            ELSE IF s[i] \in Range(F[i - 1]) THEN F[i - 1] ELSE Append(F[i - 1], s[i])
    IN  F[Len(s)]

renderDefaultResolvers(type, a, variableName) ==
    LET plain == SelectSeq(type.fields, LAMBDA f : f.arguments = <<>>)
    IN  <<[Decl EXCEPT !.kind = "defaults", !.name = variableName, !.owner = type.name,
                       !.entries = Map(LAMBDA f : f.name, plain)]>>

renderTypeResolveTypeResolver(abstractType, a) ==
    Map(LAMBDA t : getModelName(t, a.modelMap, "{}"), abstractType.types)

----------------------------------------------------------------------------
(* The registries generate() builds; the two dialects build them alike *)

inputTypesMapOf(a) ==
    LET ins == SelectSeq(a.types, LAMBDA t : t.type.isInput)
    IN  [n \in {ins[i].name : i \in DOMAIN ins} |->
            ins[CHOOSE i \in DOMAIN ins :
                /\ ins[i].name = n
                /\ \A j \in DOMAIN ins : ins[j].name = n => j <= i]]

InputArgNames(type) ==
    Flatten(Map(LAMBDA field :
                    Map(LAMBDA arg : arg.type.name,
                        SelectSeq(field.arguments, LAMBDA arg : arg.type.isInput)),
                type.fields))

(* mutant: only the first field's arguments are collected (the lists of the *)
(* other fields are dropped instead of being concatenated)                  *)
typeToInputTypeAssociationOf_FirstFieldOnly(a) ==
    LET ts == SelectSeq(a.types, LAMBDA type :
                  /\ type.type.isObject
                  /\ Len(SelectSeq(type.fields, LAMBDA field :
                         Len(SelectSeq(field.arguments, LAMBDA arg : arg.type.isInput)) > 0)) > 0)
    IN  [n \in {ts[i].name : i \in DOMAIN ts} |->
            LET type == ts[CHOOSE i \in DOMAIN ts : ts[i].name = n]
            IN  Map(LAMBDA arg : arg.type.name,
                    SelectSeq(type.fields[1].arguments, LAMBDA arg : arg.type.isInput))]

typeToInputTypeAssociationOf(a) ==
    LET ts == SelectSeq(a.types, LAMBDA type :
                  /\ type.type.isObject
                  /\ Len(SelectSeq(type.fields, LAMBDA field :
                         Len(SelectSeq(field.arguments, LAMBDA arg : arg.type.isInput)) > 0)) > 0)
    IN  [n \in {ts[i].name : i \in DOMAIN ts} |->
            InputArgNames(ts[CHOOSE i \in DOMAIN ts :
                /\ ts[i].name = n
                /\ \A j \in DOMAIN ts : ts[j].name = n => j <= i])]

----------------------------------------------------------------------------
(* generators/flow/generator.ts *)

Flow_renderContext(context) ==
    IF Len(context) > 0
    THEN [kind |-> "import", name |-> getContextName(context),
          from |-> context[1].contextPath]
    ELSE [kind |-> "alias", name |-> getContextName(context), from |-> ""]

Flow_renderHeader(a) ==
    LET modelsToImport == Map(LAMBDA k : a.modelMap[k], a.modelKeys)
        modelsByImportPaths == groupModelsNameByImportPath(modelsToImport)
    IN  <<[Decl EXCEPT
            !.kind = "header",
            !.entries = <<"GraphQLResolveInfo">>,
            !.imports = Map(LAMBDA group : [names |-> group.names,
                                            from |-> group.importPath],
                            modelsByImportPaths),
            !.context = <<Flow_renderContext(a.context)>>]>>

getInputArgName(type, field) ==
    upperFirst(type.name) \o <<"_", "Args", "_">> \o upperFirst(field.name)

Flow_renderInputTypeInterfaces(type, modelMap, typeToInputTypeAssociation, inputTypesMap) ==
    IF type.name \notin DOMAIN typeToInputTypeAssociation THEN <<>>
    ELSE Map(LAMBDA typeAssociation :
                [Decl EXCEPT !.kind = "inputType",
                             !.name = upperFirst(type.name) \o <<"_">>
                                      \o upperFirst(inputTypesMap[typeAssociation].name),
                             !.owner = type.name,
                             !.input = inputTypesMap[typeAssociation].name,
                             !.entries =
                                Map(LAMBDA field : printFieldLikeType(field, modelMap, FALSE),
                                    inputTypesMap[typeAssociation].fields)],
             getDistinctInputTypes(type, typeToInputTypeAssociation, inputTypesMap))

getArgTypePrefix(type, fieldArg) ==
    IF fieldArg.type.isScalar \/ fieldArg.type.isObject \/ fieldArg.type.isEnum
    THEN <<>>
    ELSE upperFirst(type.name) \o <<"_">>

Flow_renderInputArgInterface(type, field, modelMap) ==
    IF Len(field.arguments) = 0 THEN <<>>
    ELSE <<[Decl EXCEPT
             !.kind = "argBag", !.name = getInputArgName(type, field),
             !.owner = type.name, !.field = field.name,
             !.entries =
                Map(LAMBDA arg :
                        replace(printFieldLikeType(arg, modelMap, FALSE), ": ",
                                <<": ">> \o getArgTypePrefix(type, arg)),
                    field.arguments)]>>

Flow_renderInputArgInterfaces(type, modelMap) ==
    Flatten(Map(LAMBDA field : Flow_renderInputArgInterface(type, field, modelMap),
                type.fields))

Flow_renderResolverFunctionInterface(field, type, modelMap) ==
    [Decl EXCEPT
        !.kind = "resolverFn",
        !.name = upperFirst(type.name) \o <<"_">> \o upperFirst(field.name)
                 \o <<"_", "Resolver">>,
        !.owner = type.name,
        !.field = field.name,
        !.parent = <<getModelName(type.type, modelMap, "{}")>>,
        !.argsType = IF Len(field.arguments) > 0 THEN getInputArgName(type, field)
                     ELSE <<"{}">>,
        !.shape = IF type.name = <<"Subscription">> THEN "subscribe" ELSE "single"]

Flow_renderResolverFunctionInterfaces(type, modelMap) ==
    Map(LAMBDA field : Flow_renderResolverFunctionInterface(field, type, modelMap),
        type.fields)

Flow_renderResolverTypeInterfaceFunction(field, type, modelMap) ==
    [field |-> field.name,
     parent |-> <<getModelName(type.type, modelMap, "{}")>>,
     argsType |-> IF Len(field.arguments) > 0 THEN getInputArgName(type, field)
                  ELSE <<"{}">>,
     shape |-> IF type.name = <<"Subscription">> THEN "subscribe" ELSE "single"]

Flow_renderResolverTypeInterface(type, modelMap) ==
    <<[Decl EXCEPT
        !.kind = "shape",
        !.name = upperFirst(type.name) \o <<"_", "Resolvers">>,
        !.owner = type.name,
        !.entries = Map(LAMBDA field :
                            Flow_renderResolverTypeInterfaceFunction(field, type, modelMap),
                        type.fields)]>>

Flow_renderNamespace(type, typeToInputTypeAssociation, inputTypesMap, a) ==
    (IF a.defaultResolversEnabled
     THEN renderDefaultResolvers(type, a,
              upperFirst(type.name) \o <<"_", "defaultResolvers">>)
     ELSE <<>>)
    \o Flow_renderInputTypeInterfaces(type, a.modelMap, typeToInputTypeAssociation,
                                      inputTypesMap)
    \o Flow_renderInputArgInterfaces(type, a.modelMap)
    \o Flow_renderResolverFunctionInterfaces(type, a.modelMap)
    \o Flow_renderResolverTypeInterface(type, a.modelMap)

Flow_renderUnionNamespace(graphQLTypeObject, a) ==
    [Decl EXCEPT
        !.kind = "shape",
        !.name = graphQLTypeObject.name \o <<"_", "Resolvers">>,
        !.owner = graphQLTypeObject.name,
        !.discriminator =
            <<[name |-> "__resolveType", optional |-> TRUE,
               members |-> renderTypeResolveTypeResolver(graphQLTypeObject, a)]>>]

Flow_renderUnionNamespaces(a) ==
    Map(LAMBDA type : Flow_renderUnionNamespace(type, a), a.unions)

Flow_renderNamespaces(a, typeToInputTypeAssociation, inputTypesMap) ==
    Flatten(Map(LAMBDA type :
                    Flow_renderNamespace(type, typeToInputTypeAssociation, inputTypesMap, a),
                Objects(a)))
    \o Flow_renderUnionNamespaces(a)

Flow_renderResolvers(a) ==
    <<[Decl EXCEPT
        !.kind = "aggregate",
        !.name = <<"Resolvers">>,
        !.entries =
            Map(LAMBDA type :
                    [key |-> type.name, optional |-> FALSE, refScope |-> <<>>,
                     refName |-> upperFirst(type.name) \o <<"_", "Resolvers">>],
                Objects(a))
            \o Map(LAMBDA type :
                    [key |-> type.name, optional |-> TRUE, refScope |-> <<>>,
                     refName |-> upperFirst(type.name) \o <<"_", "Resolvers">>],
                   a.interfaces)
            \o Map(LAMBDA type :
                    [key |-> type.name, optional |-> TRUE, refScope |-> <<>>,
                     refName |-> upperFirst(type.name) \o <<"_", "Resolvers">>],
                   a.unions)]>>

Flow_generate(a) ==
    Flow_renderHeader(a)
    \o renderEnums(a)
    \o Flow_renderNamespaces(a, typeToInputTypeAssociationOf(a), inputTypesMapOf(a))
    \o Flow_renderResolvers(a)

----------------------------------------------------------------------------
(* generators/typescript/generator.ts *)

TS_renderContext(context) ==
    IF Len(context) > 0
    THEN [kind |-> "import", name |-> getContextName(context),
          from |-> context[1].contextPath]
    ELSE [kind |-> "alias", name |-> getContextName(context), from |-> ""]

(* mutant: the models that are enum type aliases are imported as well *)
TS_renderHeader_ImportsEnumAliases(a) ==
    LET modelsToImport == Map(LAMBDA modelName : a.modelMap[modelName], a.modelKeys)
        modelsByImportPaths == groupModelsNameByImportPath(modelsToImport)
    IN  <<[Decl EXCEPT
            !.kind = "header",
            !.entries = <<"GraphQLResolveInfo", "GraphQLTypeResolver", "GraphQLIsTypeOfFn">>,
            !.imports = Map(LAMBDA group : [names |-> group.names,
                                            from |-> group.importPath],
                            modelsByImportPaths),
            !.context = <<TS_renderContext(a.context)>>]>>

TS_renderHeader(a) ==
    LET modelsToImport ==
            Map(LAMBDA modelName : a.modelMap[modelName],
                SelectSeq(a.modelKeys, LAMBDA modelName :
                    LET modelDef == a.modelMap[modelName].definition
                    IN  ~(modelDef.kind = "TypeAliasDefinition" /\ modelDef.isEnum)))
        modelsByImportPaths == groupModelsNameByImportPath(modelsToImport)
    IN  <<[Decl EXCEPT
            !.kind = "header",
            !.entries = <<"GraphQLResolveInfo", "GraphQLTypeResolver", "GraphQLIsTypeOfFn">>,
            !.imports = Map(LAMBDA group : [names |-> group.names,
                                            from |-> group.importPath],
                            modelsByImportPaths),
            !.context = <<TS_renderContext(a.context)>>]>>

interfacesMapOf(a) ==
    [n \in {a.interfaces[i].name : i \in DOMAIN a.interfaces} |->
        a.interfaces[CHOOSE i \in DOMAIN a.interfaces :
            /\ a.interfaces[i].name = n
            /\ \A j \in DOMAIN a.interfaces : a.interfaces[j].name = n => j <= i].types]

(* the object { [int.name]: int.types }, as its entries in key order (the *)
(* union names of a schema are distinct)                                 *)
unionsMapOf(a) == Map(LAMBDA int : [name |-> int.name, types |-> int.types], a.unions)

TS_renderIsTypeOfFunctionInterface(type, modelMap, interfacesMap, unionsMap) ==
    LET implemented ==
            LET F[i \in 0..Len(type.interfaces)] ==
                    IF i = 0 THEN <<>>
                    ELSE flatten(F[i - 1], interfacesMap[type.interfaces[i]])
            IN  F[Len(type.interfaces)]
        (* for (let unionName in unionsMap): each union holding the type *)
        (* assigns its members to possibleTypes                          *)
        G[i \in 0..Len(unionsMap)] ==
            IF i = 0 THEN implemented
            ELSE IF \E k \in DOMAIN unionsMap[i].types :
                        unionsMap[i].types[k].name = type.name
                 THEN unionsMap[i].types
                 ELSE G[i - 1]
        possibleTypes == G[Len(unionsMap)]
    IN  IF Len(possibleTypes) = 0 THEN <<>>
        ELSE <<[name |-> "__isTypeOf", optional |-> TRUE,
                members |-> Map(LAMBDA possibleType :
                                    getModelName(possibleType, modelMap, "{}"),
                                possibleTypes)]>>

TS_renderInputTypeInterfaces(type, modelMap, typeToInputTypeAssociation, inputTypesMap) ==
    IF type.name \notin DOMAIN typeToInputTypeAssociation THEN <<>>
    ELSE Map(LAMBDA typeAssociation :
                [Decl EXCEPT !.kind = "inputType",
                             !.name = inputTypesMap[typeAssociation].name,
                             !.owner = type.name,
                             !.input = inputTypesMap[typeAssociation].name,
                             !.entries =
                                Map(LAMBDA field :
                                        field.name \o <<": ">>
                                        \o TS_printFieldLikeType(field, modelMap),
                                    inputTypesMap[typeAssociation].fields)],
             getDistinctInputTypes(type, typeToInputTypeAssociation, inputTypesMap))

TS_renderInputArgInterface(type, field, modelMap) ==
    IF Len(field.arguments) = 0 THEN <<>>
    ELSE <<[Decl EXCEPT
             !.kind = "argBag", !.name = <<"Args">> \o upperFirst(field.name),
             !.owner = type.name, !.field = field.name,
             !.entries =
                Map(LAMBDA arg :
                        arg.name \o <<": ">> \o TS_printFieldLikeType(arg, modelMap),
                    field.arguments)]>>

TS_renderInputArgInterfaces(type, modelMap) ==
    Flatten(Map(LAMBDA field : TS_renderInputArgInterface(type, field, modelMap),
                type.fields))

TS_renderResolverFunctionInterface(field, type, modelMap) ==
    [Decl EXCEPT
        !.kind = "resolverFn",
        !.name = upperFirst(field.name) \o <<"Resolver">>,
        !.owner = type.name,
        !.field = field.name,
        !.parent = <<getModelName(type.type, modelMap, "undefined")>>,
        !.argsType = IF Len(field.arguments) > 0 THEN <<"Args">> \o upperFirst(field.name)
                     ELSE <<"{}">>,
        !.shape = IF type.name = <<"Subscription">> THEN "subscribe" ELSE "single"]

TS_renderResolverFunctionInterfaces(type, modelMap) ==
    Map(LAMBDA field : TS_renderResolverFunctionInterface(field, type, modelMap),
        type.fields)

(* mutant: the parent of an interface's field is the interface's own model *)
TS_renderResolverTypeInterfaceFunction_OwnModel(field, type, modelMap, interfacesMap) ==
    [field |-> field.name,
     parent |-> <<getModelName(type.type, modelMap, "undefined")>>,
     argsType |-> IF Len(field.arguments) > 0 THEN <<"Args">> \o upperFirst(field.name)
                  ELSE <<"{}">>,
     shape |-> IF type.name = <<"Subscription">> THEN "subscribe" ELSE "single"]

TS_renderResolverTypeInterfaceFunction(field, type, modelMap, interfacesMap) ==
    [field |-> field.name,
     parent |-> IF type.type.isInterface
                THEN Map(LAMBDA implType : getModelName(implType, modelMap, "undefined"),
                         interfacesMap[type.name])
                ELSE <<getModelName(type.type, modelMap, "undefined")>>,
     argsType |-> IF Len(field.arguments) > 0 THEN <<"Args">> \o upperFirst(field.name)
                  ELSE <<"{}">>,
     shape |-> IF type.name = <<"Subscription">> THEN "subscribe" ELSE "single"]

TS_renderResolverTypeInterface(type, modelMap, interfacesMap, unionsMap, interfaceName) ==
    <<[Decl EXCEPT
        !.kind = "shape",
        !.name = interfaceName,
        !.owner = type.name,
        !.extends = Map(LAMBDA typeInterface :
                            [scope |-> typeInterface \o <<"Resolvers">>,
                             name |-> <<"InterfaceType">>],
                        type.interfaces),
        !.entries = Map(LAMBDA field :
                            TS_renderResolverTypeInterfaceFunction(field, type, modelMap,
                                                                   interfacesMap),
                        type.fields),
        !.isTypeOf = TS_renderIsTypeOfFunctionInterface(type, modelMap, interfacesMap,
                                                        unionsMap)]>>

TS_renderNamespace(graphQLTypeObject, interfacesMap, typeToInputTypeAssociation, inputTypesMap, a) ==
    InNamespace(graphQLTypeObject.name \o <<"Resolvers">>,
        renderDefaultResolvers(graphQLTypeObject, a, <<"defaultResolvers">>)
        \o TS_renderInputTypeInterfaces(graphQLTypeObject, a.modelMap,
                                        typeToInputTypeAssociation, inputTypesMap)
        \o TS_renderInputArgInterfaces(graphQLTypeObject, a.modelMap)
        \o TS_renderResolverFunctionInterfaces(graphQLTypeObject, a.modelMap)
        \o TS_renderResolverTypeInterface(graphQLTypeObject, a.modelMap, interfacesMap,
                                          unionsMapOf(a), <<"Type">>))

TS_renderObjectNamespaces(a, interfacesMap, typeToInputTypeAssociation, inputTypesMap) ==
    Flatten(Map(LAMBDA type :
                    TS_renderNamespace(type, interfacesMap, typeToInputTypeAssociation,
                                       inputTypesMap, a),
                Objects(a)))

TS_renderInterfaceNamespace(graphQLTypeObject, interfacesMap, a) ==
    InNamespace(graphQLTypeObject.name \o <<"Resolvers">>,
        TS_renderInputArgInterfaces(graphQLTypeObject, a.modelMap)
        \o TS_renderResolverTypeInterface(graphQLTypeObject, a.modelMap, interfacesMap,
                                          unionsMapOf(a), <<"InterfaceType">>)
        \o <<[Decl EXCEPT
                !.kind = "shape",
                !.name = <<"Type">>,
                !.owner = graphQLTypeObject.name,
                !.discriminator =
                    <<[name |-> "__resolveType", optional |-> FALSE,
                       members |-> Map(LAMBDA interfaceType :
                                           getModelName(interfaceType, a.modelMap, "{}"),
                                       graphQLTypeObject.types)]>>]>>)

TS_renderInterfaceNamespaces(a, interfacesMap) ==
    Flatten(Map(LAMBDA type : TS_renderInterfaceNamespace(type, interfacesMap, a),
                a.interfaces))

TS_renderUnionNamespace(graphQLTypeObject, a) ==
    InNamespace(graphQLTypeObject.name \o <<"Resolvers">>,
        <<[Decl EXCEPT
            !.kind = "shape",
            !.name = <<"Type">>,
            !.owner = graphQLTypeObject.name,
            !.discriminator =
                <<[name |-> "__resolveType", optional |-> TRUE,
                   members |-> Map(LAMBDA interfaceType :
                                       getModelName(interfaceType, a.modelMap, "{}"),
                                   graphQLTypeObject.types)]>>]>>)

TS_renderUnionNamespaces(a) ==
    Flatten(Map(LAMBDA type : TS_renderUnionNamespace(type, a), a.unions))

(* mutant: the union namespaces are laid out ahead of the interface namespaces *)
TS_renderNamespaces_UnionsFirst(a, interfacesMap, typeToInputTypeAssociation, inputTypesMap) ==
    TS_renderObjectNamespaces(a, interfacesMap, typeToInputTypeAssociation, inputTypesMap)
    \o TS_renderUnionNamespaces(a)
    \o TS_renderInterfaceNamespaces(a, interfacesMap)

TS_renderNamespaces(a, interfacesMap, typeToInputTypeAssociation, inputTypesMap) ==
    TS_renderObjectNamespaces(a, interfacesMap, typeToInputTypeAssociation, inputTypesMap)
    \o TS_renderInterfaceNamespaces(a, interfacesMap)
    \o TS_renderUnionNamespaces(a)

(* mutant: the unions are listed as required entries *)
TS_renderResolvers_UnionsRequired(a) ==
    <<[Decl EXCEPT
        !.kind = "aggregate",
        !.name = <<"Resolvers">>,
        !.entries =
            Map(LAMBDA type :
                    [key |-> type.name, optional |-> FALSE,
                     refScope |-> type.name \o <<"Resolvers">>, refName |-> <<"Type">>],
                Objects(a))
            \o Map(LAMBDA type :
                    [key |-> type.name, optional |-> TRUE,
                     refScope |-> type.name \o <<"Resolvers">>, refName |-> <<"Type">>],
                   a.interfaces)
            \o Map(LAMBDA type :
                    [key |-> type.name, optional |-> FALSE,
                     refScope |-> type.name \o <<"Resolvers">>, refName |-> <<"Type">>],
                   a.unions)]>>

TS_renderResolvers(a) ==
    <<[Decl EXCEPT
        !.kind = "aggregate",
        !.name = <<"Resolvers">>,
        !.entries =
            Map(LAMBDA type :
                    [key |-> type.name, optional |-> FALSE,
                     refScope |-> type.name \o <<"Resolvers">>, refName |-> <<"Type">>],
                Objects(a))
            \o Map(LAMBDA type :
                    [key |-> type.name, optional |-> TRUE,
                     refScope |-> type.name \o <<"Resolvers">>, refName |-> <<"Type">>],
                   a.interfaces)
            \o Map(LAMBDA type :
                    [key |-> type.name, optional |-> TRUE,
                     refScope |-> type.name \o <<"Resolvers">>, refName |-> <<"Type">>],
                   a.unions)]>>

TS_generate(a) ==
    TS_renderHeader(a)
    \o renderEnums(a)
    \o TS_renderNamespaces(a, interfacesMapOf(a), typeToInputTypeAssociationOf(a),
                        inputTypesMapOf(a))
    \o TS_renderResolvers(a)

----------------------------------------------------------------------------
(* format(): prettier either returns the reformatted text or throws *)

Unformatted(code) == [text |-> code, parser |-> "none"]

prettierFormat(code, parser) == [text |-> code, parser |-> parser]

Diagnostic == "There is a syntax error in generated code, unformatted code printed"

(* mutant: the catch block reports the error and returns nothing *)
Flow_format_DropsText(code, throws) ==
    IF ~throws
    THEN [value |-> prettierFormat(code, "flow"), log |-> <<>>, raised |-> FALSE]
    ELSE [value |-> Unformatted(<<>>), log |-> <<Diagnostic>>, raised |-> FALSE]

Flow_format(code, throws) ==
    IF ~throws
    THEN [value |-> prettierFormat(code, "flow"), log |-> <<>>, raised |-> FALSE]
    ELSE [value |-> Unformatted(code), log |-> <<Diagnostic>>, raised |-> FALSE]

TS_format(code, throws) ==
    IF ~throws
    THEN [value |-> prettierFormat(code, "typescript"), log |-> <<>>, raised |-> FALSE]
    ELSE [value |-> Unformatted(code), log |-> <<Diagnostic>>, raised |-> FALSE]

----------------------------------------------------------------------------
(* The state machine *)

InitWith(s) ==
    /\ args = [types |-> s.types, interfaces |-> s.interfaces, unions |-> s.unions,
               enums |-> s.enums, modelMap |-> s.modelMap, modelKeys |-> s.modelKeys,
               context |-> s.context,
               defaultResolversEnabled |-> s.defaultResolversEnabled]
    /\ rootSub = s.root
    /\ lang = "none"
    /\ pc = "start"
    /\ out = <<>>
    /\ result = Unformatted(<<>>)
    /\ log = <<>>
    /\ threw = FALSE
    /\ raised = FALSE

Init ==
    \/ \E n \in ObjectNames, flag \in BOOLEAN :
        \E ns \in InjSeqs(FieldNames, Cardinality(FieldNames)) :
            \E as \in [DOMAIN ns -> ArgLists] :
                InitWith(FieldSchema(n, FieldList(ns, as), flag))
    \/ \E ns \in InjSeqs(ObjectNames, MaxObjects), hasI \in BOOLEAN :
        \E impl \in SUBSET DOMAIN ns, mem \in SUBSET DOMAIN ns :
            \E mm \in ModelMaps, flag \in BOOLEAN, r \in {NoRoot} \cup Range(ns) :
                /\ ~hasI => impl = {}
                /\ InitWith(AbstractSchema(ns, hasI, impl, mem, mm, flag, r))
    \/ \E ks \in InjSeqs(ModelKeys, Cardinality(ModelKeys)) :
        \E ps \in [DOMAIN ks -> Range(ImportPaths)] :
            \E ctx \in BOOLEAN, en \in BOOLEAN, nested \in BOOLEAN, list \in BOOLEAN :
                InitWith(HeaderSchema(ks, ps, ctx, en, nested, list))

GenerateFlow ==
    /\ pc = "start"
    /\ lang' = "flow"
    /\ out' = Flow_generate(args)
    /\ pc' = "generated"
    /\ UNCHANGED <<args, rootSub, result, log, threw, raised>>

GenerateTypescript ==
    /\ pc = "start"
    /\ lang' = "typescript"
    /\ out' = TS_generate(args)
    /\ pc' = "generated"
    /\ UNCHANGED <<args, rootSub, result, log, threw, raised>>

FormatFlow ==
    /\ pc = "generated"
    /\ lang = "flow"
    /\ \E throws \in BOOLEAN :
        LET r == Flow_format(out, throws)
        IN  /\ result' = r.value
            /\ log' = r.log
            /\ threw' = throws
            /\ raised' = r.raised
    /\ pc' = "formatted"
    /\ UNCHANGED <<args, rootSub, lang, out>>

FormatTypescript ==
    /\ pc = "generated"
    /\ lang = "typescript"
    /\ \E throws \in BOOLEAN :
        LET r == TS_format(out, throws)
        IN  /\ result' = r.value
            /\ log' = r.log
            /\ threw' = throws
            /\ raised' = r.raised
    /\ pc' = "formatted"
    /\ UNCHANGED <<args, rootSub, lang, out>>

Next == GenerateFlow \/ GenerateTypescript \/ FormatFlow \/ FormatTypescript

Spec == Init /\ [][Next]_vars

----------------------------------------------------------------------------
(* Vocabulary of the properties *)

Generated == pc = "generated"

DeclsOf(kind, owner) ==
    {i \in DOMAIN out : out[i].kind = kind /\ out[i].owner = owner}

(* m is the resolved model name of the type reference: the bound name when *)
(* the model map binds the type, a fallback that is no bound name otherwise *)
ResolvedModel(m, typeRef) ==
    IF typeRef.name \in DOMAIN args.modelMap
    THEN m = args.modelMap[typeRef.name].definition.name
    ELSE m \notin {args.modelMap[k].definition.name : k \in DOMAIN args.modelMap}

ResolvedModels(ms, typeRefs) ==
    /\ Len(ms) = Len(typeRefs)
    /\ \A k \in DOMAIN ms : ResolvedModel(ms[k], typeRefs[k])

(* the argument type references of an object type, fields then arguments *)
ArgTypeRefs(t) ==
    Flatten([i \in DOMAIN t.fields |->
                [k \in DOMAIN t.fields[i].arguments |-> t.fields[i].arguments[k].type]])

UsedInputsIn(refs) == {refs[k].name : k \in {k \in DOMAIN refs : refs[k].isInput}}

UsedInputs(t) == UsedInputsIn(ArgTypeRefs(t))

FirstUseIn(refs, I) ==
    CHOOSE k \in DOMAIN refs :
        /\ refs[k].isInput /\ refs[k].name = I
        /\ \A j \in 1..(k - 1) : ~(refs[j].isInput /\ refs[j].name = I)

----------------------------------------------------------------------------
(* C1: every resolver-shape name the aggregate Resolvers declaration refers *)
(* to (one per object type, interface and union) is the name of a resolver  *)
(* shape declared in the same output, in both dialects.                     *)
C1_AggregateRefersToDeclaredShapes ==
    Generated =>
        \A i \in DOMAIN out : out[i].kind = "aggregate" =>
            \A k \in DOMAIN out[i].entries :
                \E j \in DOMAIN out :
                    /\ out[j].kind = "shape"
                    /\ out[j].scope = out[i].entries[k].refScope
                    /\ out[j].name = out[i].entries[k].refName

(* C2: a field with at least one argument gets exactly one argument bag, a  *)
(* field without arguments gets none and its resolver takes {} as args, and *)
(* no two argument bags declared in the same scope have the same name.      *)
C2_ArgBagPerFieldUniqueName ==
    Generated =>
        /\ \A t \in Range(Objects(args)) : \A f \in Range(t.fields) :
            LET bags == {i \in DeclsOf("argBag", t.name) : out[i].field = f.name}
            IN  /\ Cardinality(bags) = IF Len(f.arguments) > 0 THEN 1 ELSE 0
                /\ Len(f.arguments) = 0 =>
                    \A i \in DeclsOf("resolverFn", t.name) :
                        out[i].field = f.name => out[i].argsType = <<"{}">>
        /\ \A i, j \in DOMAIN out :
            (i # j /\ out[i].kind = "argBag" /\ out[j].kind = "argBag"
                /\ out[i].scope = out[j].scope)
            => out[i].name # out[j].name

(* C3: for every object type T, each input type used as an argument type by *)
(* T's fields is declared exactly once for T, the declarations follow the   *)
(* order of first use over T's fields and arguments, and a type without     *)
(* input-typed arguments declares no input type.                            *)
C3_OneInputTypeDeclPerOwner ==
    Generated =>
        \A t \in Range(Objects(args)) :
            LET ds == DeclsOf("inputType", t.name)
                refs == ArgTypeRefs(t)
                used == UsedInputsIn(refs)
            IN  /\ \A I \in used : Cardinality({i \in ds : out[i].input = I}) = 1
                /\ \A i \in ds : out[i].input \in used
                /\ used = {} => ds = {}
                /\ \A i, j \in ds :
                    i < j => FirstUseIn(refs, out[i].input) < FirstUseIn(refs, out[j].input)

(* C3 witness: an object type whose fields use one input type twice and a *)
(* second input type, with its two input-type declarations emitted.        *)
C3_Witness ==
    /\ Generated
    /\ \E t \in Range(Objects(args)) :
        /\ Cardinality(UsedInputs(t)) = 2
        /\ Len(SelectSeq(ArgTypeRefs(t), LAMBDA r : r.isInput)) >= 3
        /\ Len(t.fields) = 2
        /\ Cardinality(DeclsOf("inputType", t.name)) = 2

(* C4: in the Flow output all top-level declaration names are pairwise *)
(* distinct.                                                           *)
C4_FlowNamesDistinct ==
    (Generated /\ lang = "flow") =>
        \A i, j \in DOMAIN out : i # j => out[i].name # out[j].name

(* C5: with defaultResolversEnabled false no default-resolver bundle is   *)
(* emitted, in either dialect; with it true each object type gets exactly *)
(* one bundle, ahead of the type's other declarations.                    *)
C5_DefaultBundleFollowsFlag ==
    Generated =>
        \A t \in Range(Objects(args)) :
            LET ds == DeclsOf("defaults", t.name)
            IN  IF args.defaultResolversEnabled
                THEN /\ Cardinality(ds) = 1
                     /\ \A i \in ds : \A j \in DOMAIN out :
                            (out[j].owner = t.name /\ j # i) => i < j
                ELSE ds = {}

(* C6: a field has the two-function (subscribe + optional resolve) shape if *)
(* and only if its type is the schema's subscription root type, both in its *)
(* resolver-function declaration and in its entry of the resolver shape.    *)
C6_SubscribeShapeIffSubscriptionRoot ==
    Generated =>
        \A i \in DOMAIN out :
            /\ out[i].kind = "resolverFn" =>
                (out[i].shape = "subscribe" <=> out[i].owner = rootSub)
            /\ (out[i].kind = "shape" /\ out[i].discriminator = <<>>) =>
                \A k \in DOMAIN out[i].entries :
                    out[i].entries[k].shape = "subscribe" <=> out[i].owner = rootSub

(* C7: every interface has a resolver-shape declaration with a __resolveType *)
(* binding typed over the models of its implementers, and every object type  *)
(* implementing interfaces has a resolver shape that inherits the declared   *)
(* field contracts of each of them.                                          *)
C7_InterfaceShapesAndInheritance ==
    Generated =>
        /\ \A n \in Range(args.interfaces) :
            \E i \in DeclsOf("shape", n.name) :
                /\ Len(out[i].discriminator) = 1
                /\ out[i].discriminator[1].name = "__resolveType"
                /\ ResolvedModels(out[i].discriminator[1].members, n.types)
        /\ \A t \in Range(Objects(args)) : \A n \in Range(args.interfaces) :
            (\E k \in DOMAIN t.interfaces : t.interfaces[k] = n.name) =>
                \E i \in DeclsOf("shape", t.name) :
                    \E e \in DOMAIN out[i].extends : \E j \in DeclsOf("shape", n.name) :
                        /\ out[j].scope = out[i].extends[e].scope
                        /\ out[j].name = out[i].extends[e].name
                        /\ Len(out[j].entries) = Len(n.fields)
                        /\ \A f \in DOMAIN n.fields :
                            out[j].entries[f].field = n.fields[f].name

(* C8: each union has exactly one resolver shape, holding exactly one        *)
(* binding, __resolveType, typed over the models of exactly its members; the *)
(* aggregate lists the objects as required, then the interfaces and the      *)
(* unions as optional entries.                                               *)
C8_UnionShapeAndAggregateOrder ==
    Generated =>
        /\ \A u \in Range(args.unions) :
            /\ Cardinality(DeclsOf("shape", u.name)) = 1
            /\ \A i \in DeclsOf("shape", u.name) :
                /\ out[i].entries = <<>>
                /\ Len(out[i].discriminator) = 1
                /\ out[i].discriminator[1].name = "__resolveType"
                /\ ResolvedModels(out[i].discriminator[1].members, u.types)
        /\ \A i \in DOMAIN out : out[i].kind = "aggregate" =>
            LET es == out[i].entries
                no == Len(Objects(args))
                ni == Len(args.interfaces)
            IN  /\ Len(es) = no + ni + Len(args.unions)
                /\ \A k \in DOMAIN es :
                    IF k <= no
                    THEN es[k].key = Objects(args)[k].name /\ ~es[k].optional
                    ELSE IF k <= no + ni
                    THEN es[k].key = args.interfaces[k - no].name /\ es[k].optional
                    ELSE es[k].key = args.unions[k - no - ni].name /\ es[k].optional
        /\ Cardinality({i \in DOMAIN out : out[i].kind = "aggregate"}) = 1

(* C8 witness: a union of two members beside an interface, rendered. *)
C8_Witness ==
    /\ Generated
    /\ Len(args.interfaces) = 1
    /\ \E i \in DeclsOf("shape", UnionName) :
        /\ Len(out[i].discriminator) = 1
        /\ Len(out[i].discriminator[1].members) = 2
    /\ \E i \in DOMAIN out : out[i].kind = "aggregate" /\ Len(out[i].entries) = 4

(* C9: every field entry of an interface's resolver shape takes as parent  *)
(* the union of the models of the interface's implementers; a field entry  *)
(* of an object type takes the object type's own model.                    *)
C9_ParentOfInterfaceIsImplementers ==
    Generated =>
        /\ \A n \in Range(args.interfaces) : \A i \in DeclsOf("shape", n.name) :
            \A k \in DOMAIN out[i].entries :
                ResolvedModels(out[i].entries[k].parent, n.types)
        /\ \A t \in Range(Objects(args)) : \A i \in DeclsOf("shape", t.name) :
            \A k \in DOMAIN out[i].entries :
                ResolvedModels(out[i].entries[k].parent, <<t.type>>)

(* C9 witness: an interface with two implementers, one bound to a model and *)
(* one not, whose resolver shape has a field entry.                         *)
C9_Witness ==
    /\ Generated
    /\ \E n \in Range(args.interfaces) :
        /\ Len(n.types) = 2
        /\ n.types[1].name \in DOMAIN args.modelMap
        /\ n.types[2].name \notin DOMAIN args.modelMap
        /\ \E i \in DeclsOf("shape", n.name) :
            /\ out[i].entries # <<>>
            /\ Len(out[i].entries[1].parent) = 2

----------------------------------------------------------------------------
(* the section of the text a declaration lies in: 1 header, 2 enums,       *)
(* 3 object-type blocks, 4 interface blocks, 5 union blocks, 6 aggregate   *)
SectionOf(d) ==
    CASE d.kind = "header" -> 1
      [] d.kind = "enum" -> 2
      [] d.kind = "aggregate" -> 6
      [] d.owner \in {args.interfaces[k].name : k \in DOMAIN args.interfaces} -> 4
      [] d.owner \in {args.unions[k].name : k \in DOMAIN args.unions} -> 5
      [] OTHER -> 3

(* the place of a declaration inside its object-type block *)
PlaceInBlock(d) ==
    CASE d.kind = "defaults" -> 1
      [] d.kind = "inputType" -> 2
      [] d.kind = "argBag" -> 3
      [] d.kind = "resolverFn" -> 4
      [] OTHER -> 5

ObjectIndex(n) == CHOOSE k \in DOMAIN Objects(args) : Objects(args)[k].name = n

(* C11: in both dialects the text starts with the header and ends with the *)
(* aggregate resolver map, and its declarations come in the order header,  *)
(* enum projections, object-type blocks in schema order, interface blocks, *)
(* union blocks, aggregate; inside an object-type block they come in the   *)
(* order default-resolver bundle, input-type declarations, argument bags,  *)
(* resolver-function types, resolver shape.                                *)
C11_SectionsInFixedOrder ==
    Generated =>
        /\ out[1].kind = "header"
        /\ out[Len(out)].kind = "aggregate"
        /\ Len(SelectSeq(out, LAMBDA d : d.kind = "enum")) = Len(args.enums)
        /\ \A k \in DOMAIN Objects(args) :
              \E i \in DOMAIN out :
                  out[i].kind = "shape" /\ out[i].owner = Objects(args)[k].name
        /\ \A i, j \in DOMAIN out : i < j =>
              /\ SectionOf(out[i]) <= SectionOf(out[j])
              /\ (SectionOf(out[i]) = 3 /\ SectionOf(out[j]) = 3) =>
                    /\ ObjectIndex(out[i].owner) <= ObjectIndex(out[j].owner)
                    /\ out[i].owner = out[j].owner =>
                          PlaceInBlock(out[i]) <= PlaceInBlock(out[j])

(* a TypeScript text with all six sections, two object-type blocks and all *)
(* five kinds of declaration in the first block                            *)
C11_Witness ==
    /\ Generated /\ lang = "typescript"
    /\ {SectionOf(out[i]) : i \in DOMAIN out} = 1..6
    /\ Len(Objects(args)) >= 2
    /\ {PlaceInBlock(out[i]) :
            i \in {i \in DOMAIN out : out[i].owner = Objects(args)[1].name}} = 1..5

----------------------------------------------------------------------------
PathRank(p) == CHOOSE k \in DOMAIN ImportPaths : ImportPaths[k] = p

(* the header imports exactly the models bound to the keys in keys: one    *)
(* import per path of these models, the paths in sorted order, each import *)
(* listing each model name of its path once; and it has one context line,  *)
(* an import of the context type when a context is given, an alias if not  *)
HeaderImports(h, keys) ==
    LET models == {args.modelMap[k] : k \in keys}
    IN  /\ {h.imports[i].from : i \in DOMAIN h.imports}
              = {m.importPathRelativeToOutput : m \in models}
        /\ \A i, j \in DOMAIN h.imports : i < j =>
              PathRank(h.imports[i].from) < PathRank(h.imports[j].from)
        /\ \A i \in DOMAIN h.imports :
              LET names == h.imports[i].names
              IN  /\ \A k, l \in DOMAIN names : k # l => names[k] # names[l]
                  /\ Range(names) =
                        {m.definition.name : m \in {m \in models :
                            m.importPathRelativeToOutput = h.imports[i].from}}
        /\ Len(h.context) = 1
        /\ IF Len(args.context) > 0
           THEN /\ h.context[1].kind = "import"
                /\ h.context[1].name = args.context[1].interfaceName
                /\ h.context[1].from = args.context[1].contextPath
           ELSE h.context[1].kind = "alias"

EnumAliasKeys ==
    {k \in DOMAIN args.modelMap :
        /\ args.modelMap[k].definition.kind = "TypeAliasDefinition"
        /\ args.modelMap[k].definition.isEnum}

----------------------------------------------------------------------------
(* the object types among which __isTypeOf of the object type t is said to *)
(* tell: the implementers of every interface t implements and the members  *)
(* of every union t is a member of                                         *)
IsTypeOfTypes(t) ==
    UNION {Range(args.interfaces[k].types) :
              k \in {k \in DOMAIN args.interfaces :
                        args.interfaces[k].name \in Range(t.interfaces)}}
    \cup UNION {Range(args.unions[k].types) :
                  k \in {k \in DOMAIN args.unions :
                            \E l \in DOMAIN args.unions[k].types :
                                args.unions[k].types[l].name = t.name}}

(* C16: in the TypeScript text the resolver shape of an object type has an *)
(* optional __isTypeOf entry exactly when the type implements an interface *)
(* or is a member of a union, and the models the entry is typed over are   *)
(* the resolved models of all implementers of every interface the type     *)
(* implements together with all members of every union that contains it.  *)
C16_IsTypeOfOverAllImplementersAndMembers ==
    (Generated /\ lang = "typescript") =>
        \A k \in DOMAIN Objects(args) :
            LET t == Objects(args)[k]
            IN  \A i \in DOMAIN out :
                    (out[i].kind = "shape" /\ out[i].owner = t.name) =>
                        /\ Len(out[i].isTypeOf) <= 1
                        /\ (Len(out[i].isTypeOf) = 1) <=> (IsTypeOfTypes(t) # {})
                        /\ \A e \in Range(out[i].isTypeOf) :
                              /\ e.optional
                              /\ \A m \in Range(e.members) :
                                    \E r \in IsTypeOfTypes(t) : ResolvedModel(m, r)
                              /\ \A r \in IsTypeOfTypes(t) :
                                    \E m \in Range(e.members) : ResolvedModel(m, r)

----------------------------------------------------------------------------
(* the type an entry `name: type` names, without the list brackets *)
TypeOfEntry(text) ==
    LET i == CHOOSE i \in DOMAIN text :
                 text[i] = ": " /\ \A j \in 1..(i - 1) : text[j] # ": "
    IN  SelectSeq(SubSeq(text, i + 1, Len(text)), LAMBDA tok : tok # "[]")

(* ref is the owner-scoped name of the input type I under the object type *)
(* t, and the text declares it for t                                      *)
RefersToDeclared(t, ref, I) ==
    /\ ref = upperFirst(t.name) \o <<"_">> \o upperFirst(I)
    /\ \E j \in DOMAIN out :
          /\ out[j].kind = "inputType" /\ out[j].owner = t.name
          /\ out[j].input = I /\ out[j].name = ref

(* the entries of the declaration d that come from the fields or arguments *)
(* fs, one by one: each one of an input type names it as t's own           *)
InputRefsScoped(t, d, fs) ==
    /\ Len(d.entries) = Len(fs)
    /\ \A k \in DOMAIN fs :
          fs[k].type.isInput =>
              RefersToDeclared(t, TypeOfEntry(d.entries[k]), fs[k].type.name)

(* C15: in the Flow text every reference to an input type I inside a       *)
(* declaration of the object type T, in the entries of T's argument bags   *)
(* and in the entries of T's input-type declarations (input types nested   *)
(* in input types and input types in lists included), is spelled T_I, and  *)
(* the text holds the declaration T_I of that input type.                  *)
C15_FlowInputRefsOwnerScoped ==
    (Generated /\ lang = "flow") =>
        \A n \in DOMAIN Objects(args) :
            LET t == Objects(args)[n]
            IN  \A i \in DOMAIN out : out[i].owner = t.name =>
                    /\ out[i].kind = "argBag" =>
                          \A f \in DOMAIN t.fields :
                              t.fields[f].name = out[i].field =>
                                  InputRefsScoped(t, out[i], t.fields[f].arguments)
                    /\ out[i].kind = "inputType" =>
                          InputRefsScoped(t, out[i],
                                          inputTypesMapOf(args)[out[i].input].fields)

----------------------------------------------------------------------------
(* a model name, the two dialects' fallbacks for an unbound type made one *)
SameFallback(m) == IF m \in {<<"{}">>, <<"undefined">>} THEN <<"unbound">> ELSE m

SameFallbacks(ms) == [k \in DOMAIN ms |-> SameFallback(ms[k])]

(* what a text declares, with the names and the syntax of the dialect left *)
(* out: the default bundles, the (owner, input type) declarations, the     *)
(* argument bags, the resolver-function types, per owner the content of    *)
(* its resolver shapes, and the imported models                            *)
StructureOf(ds) ==
    LET D(kind) == {i \in DOMAIN ds : ds[i].kind = kind}
        Entry(e) == [field |-> e.field, parent |-> SameFallbacks(e.parent),
                     hasArgs |-> e.argsType # <<"{}">>, shape |-> e.shape]
        ShapesOf(owner) == {i \in D("shape") : ds[i].owner = owner}
    IN  [bundles |-> {[owner |-> ds[i].owner, fields |-> ds[i].entries] : i \in D("defaults")},
         inputs |-> {[owner |-> ds[i].owner, input |-> ds[i].input] : i \in D("inputType")},
         bags |-> {[owner |-> ds[i].owner, field |-> ds[i].field,
                    arguments |-> Len(ds[i].entries)] : i \in D("argBag")},
         functions |-> {[owner |-> ds[i].owner, field |-> ds[i].field,
                         parent |-> SameFallbacks(ds[i].parent),
                         hasArgs |-> ds[i].argsType # <<"{}">>,
                         shape |-> ds[i].shape] : i \in D("resolverFn")},
         shapes |->
            {[owner |-> owner,
              fields |-> UNION {{Entry(ds[i].entries[k]) : k \in DOMAIN ds[i].entries} :
                                   i \in ShapesOf(owner)},
              resolveType |-> UNION {{SameFallbacks(x.members) :
                                         x \in Range(ds[i].discriminator)} :
                                        i \in ShapesOf(owner)},
              isTypeOf |-> UNION {{SameFallbacks(x.members) : x \in Range(ds[i].isTypeOf)} :
                                     i \in ShapesOf(owner)},
              inherits |-> UNION {{Len(ds[i].extends)} : i \in ShapesOf(owner)}] :
                owner \in {ds[i].owner : i \in D("shape")}},
         models |-> UNION {UNION {{[name |-> name, from |-> x.from] : name \in Range(x.names)} :
                                     x \in Range(ds[i].imports)} : i \in D("header")}]

(* C14: for the same arguments the Flow text and the TypeScript text have  *)
(* the same structure: the same default bundles, (owner, input type)       *)
(* declarations, argument bags, resolver-function types and resolver       *)
(* shapes with the same discriminator and inheritance content, and the     *)
(* same imported models.                                                   *)
C14_DialectsStructurallyEquivalent ==
    (Generated /\ lang = "flow") => StructureOf(out) = StructureOf(TS_generate(args))

====
